---- MODULE Spec2Model ----
(***************************************************************************)
(* Model of the Swipe 3.0 gesture engine (swipe3.js).  The repository      *)
(* carries two builds of the engine, src/unnamed/part_000 (long form) and  *)
(* src/unnamed/part_001 (compact form); the variable `variant` selects     *)
(* the build and every operator that differs between them branches on it.  *)
(*                                                                         *)
(* Conventions                                                             *)
(*  - JavaScript `undefined` and `NaN` are the integers Undefined and NaN,  *)
(*    which lie outside every pixel range of the model; arithmetic goes    *)
(*    through Add/Sub, which propagate them as JavaScript does.            *)
(*  - slidePos is a table over KeyRange; a key whose value is Undefined    *)
(*    has never been written (a hole of `new Array(length)`).              *)
(*  - start.time holds the milliseconds elapsed since `Date.now()` was     *)
(*    stored in it, so `Date.now() - start.time` is the field itself; it   *)
(*    saturates at MaxAge, beyond which the code cannot tell ages apart.   *)
(*  - callbacks of the host (config.callback, dragStart, ...) are opaque   *)
(*    notifications: `fired` lists those raised by the last handler.       *)
(*  - a callback never calls back into the engine while it runs (the loop   *)
(*    mode of the <swipe-slider> wrapper, which does, is not modelled).     *)
(*  - styles and transforms written by translate() are not state of the    *)
(*    model, except that `drawn` lists the translate() calls by which the  *)
(*    last move or wheel event rendered the drag; slides are counted, not  *)
(*    told apart.                                                          *)
(*  - an exception a handler does not catch is the notification            *)
(*    "TypeError" in `fired`.                                              *)
(*  - Spec drives the public API alone, SpecNav the navigation calls from  *)
(*    a start slide that exists, SpecGesture the event handlers of an      *)
(*    installation with one input family (pointer, touch, mouse or wheel). *)
(*  - a timer (wheelEndTimeout, the debounce of setup) is the number of    *)
(*    milliseconds left on it, NoTimer when none is pending; time passes   *)
(*    in Elapse, never beyond the expiry of a pending timer.  `since` is   *)
(*    the age of the event that last restarted each pending timer.         *)
(*  - no slide carries data-cloned (nothing in the repository sets it).    *)
(*  - SpecLife drives an installation with pointer and wheel input through *)
(*    sessions, wheel bursts, resize signals, setup() and kill();          *)
(*    SpecTimers the same without sessions and with time in finer steps;   *)
(*    SpecResistance the offset computed by applyResistance, kept as an    *)
(*    exact fraction in `resisted`; SpecChange every way the active slide  *)
(*    changes with an onChange, SpecFrame the same with every slide(to)    *)
(*    aimed at a slide.                                                    *)
(*  - SpecEmpty drives the navigation calls over a track the host empties  *)
(*    and fills; SpecPress the sessions of one input family with pause()   *)
(*    and resume(); SpecRelease sessions released where they were pressed; *)
(*    SpecWheel one long wheel burst and SpecModes wheel events in pixels  *)
(*    and pages with the silence that ends a burst; SpecPointers pointer   *)
(*    sessions with two pointers about.                                    *)
(*  - SpecComponent is the <swipe-slider> element (src/swipe-slider.js):   *)
(*    init(), the frame callback that constructs the engine, kill().       *)
(*    `component` holds the frame callbacks pending, whether this.swipe    *)
(*    is set, data-ready, the engines overwritten without a kill(), and    *)
(*    whether kill() was the last of init() and kill() to be called.       *)
(***************************************************************************)
EXTENDS Integers, Sequences, FiniteSets, TLC

VARIABLES
  variant,          \* which build of the engine runs
  supports,         \* feature detection: [pointerEvents, touch]
  config,           \* effective options: [draggable, mousewheel, ignore, paused]
  nSlides,          \* element.children.length (the live collection `slides`)
  length,           \* `length`, the slide count cached by setup()
  width,            \* `width`, the measured container width
  index,            \* `index`, the active slide
  slidePos,         \* `slidePos`, the rest-offset table
  start,            \* `start`  = {x, y, time, pointerId}
  delta,            \* `delta`  = {x, y} or {}
  isScrolling,      \* "undefined" | "false" | "true"
  captured,         \* events.captured / events.pointerCaptured
  listeners,        \* event types for which `events` is registered
  wheelEndTimeout,  \* ms left on the wheel-silence timer, or NoTimer
  resizeTimer,      \* ms left on the timer of debouncedSetup, or NoTimer
  since,            \* ms since the last wheel event / resize signal whose timer is pending
  resisted,         \* the last result of applyResistance, as a fraction
  rafQueue,         \* directions captured by pending requestAnimationFrame callbacks
  drawn,            \* translate() calls of the last handler's drag rendering that found a slide
  component,        \* the <swipe-slider> element: [frames, swipe, ready, orphans, killed]
  fired,            \* notifications raised by the last handler
  op                \* the last handler that ran, with its arguments

vars == <<variant, supports, config, nSlides, length, width, index, slidePos,
          start, delta, isScrolling, captured, listeners, wheelEndTimeout,
          resizeTimer, since, resisted, rafQueue, drawn, component, fired, op>>

----------------------------------------------------------------------------
(* Bounds of the model *)

MaxN == 3            \* most slides in the track
MaxRaf == 1          \* most pending next-frame callbacks
MaxOffset == 600     \* largest |offset| the model lets the table hold
MaxWheelX == 400     \* largest |delta.x| a wheel burst may accumulate
MaxBurstX == 700     \* largest |delta.x| and |delta.y| of the long wheel bursts
MaxFrames == 2       \* most first-layout callbacks pending, and most engines left behind
MinIndex == 0 - 2    \* smallest value the model lets `index` take
MaxIndex == MaxN + 1 \* largest value the model lets `index` take

Widths == {300}                          \* measured container widths
DeltaXs == {0 - 200, 0 - 50, 150}  \* pointer travel in x
DeltaYs == {0, 300}                      \* pointer travel in y
PressPoints == {<<500, 400>>}            \* where a press lands
PointerIds == {1}
TwoPointerIds == {1, 2}                    \* pointerIds where two pointers are about
WheelDeltaXs == {2, 400}        \* raw wheel deltaX
WheelDeltaYs == {0}                      \* raw wheel deltaY
WheelModes == {0}                        \* wheel deltaMode
Lapses == {25}                           \* ms that pass between two events
LifeDeltaXs == {0 - 200}                 \* pointer travel in x, where timers run too
DragXs == {1, 150, 300, 301, 1200, 2400}   \* |travel| the drawn offset is computed for
ChangeDeltaXs == {0 - 200, 200}            \* pointer travel in x of the swipes that commit
LifeDeltaYs == {0, 300}                    \* pointer travel in y, where timers run too
\* wheel events of the long bursts, in pixels
BurstEvents ==
  { [x |-> 300, y |-> 0, mode |-> 0], [x |-> 300, y |-> 300, mode |-> 0],
    [x |-> 0 - 200, y |-> 0, mode |-> 0] }
\* wheel events around the 3 px threshold: pixels, and one page in deltaMode 2
ModeEvents ==
  { [x |-> 400, y |-> 0, mode |-> 0], [x |-> 2, y |-> 0, mode |-> 0],
    [x |-> 1, y |-> 0, mode |-> 2] }
ReleaseDeltaXs == {0, 0 - 200}             \* pointer travel in x: none, and a swipe
PressDeltaYs == {0, 55, 60, 61}            \* pointer travel in y, around the margin of the axis lock
StartSlides == 0..MaxN                   \* config.startSlide
IndexArgs == {0 - 1, 0, 2, MaxN}           \* arguments of slide(to) and setIndex(i)

(* Constants of the program *)

WheelSilenceMs == 50    \* setTimeout(..., 50) of onWheel
ValidDurationMs == 250  \* duration < 250
ResizeDelayMs == 150    \* debounce(setup, 150)
MinSwipePx == 20        \* absX > 20
Sensitivity == 10       \* const sensitivity = 10
WheelMinPx == 3         \* Math.abs(deltaX) < 3
LinePx == 40            \* deltaMode 1: deltaX *= 40

MaxAge == ValidDurationMs  \* ages from here on all fail `duration < 250` alike

KeyRange == (MinIndex - MaxN - 1)..(MaxIndex + MaxN + 1)

----------------------------------------------------------------------------
(* JavaScript values *)

Undefined == 0 - 999998
NaN == 0 - 999999

IsNum(v) == v # Undefined /\ v # NaN

Add(a, b) == IF IsNum(a) /\ IsNum(b) THEN a + b ELSE NaN
Sub(a, b) == IF IsNum(a) /\ IsNum(b) THEN a - b ELSE NaN

Abs(v) == IF v < 0 THEN 0 - v ELSE v

\* the % operator: the result takes the sign of the dividend
JSRem(a, b) == IF a >= 0 THEN a % b ELSE 0 - ((0 - a) % b)

\* `delta.x || 0` and every truthiness or ordering test of delta.x, for which
\* undefined and 0 are indistinguishable
DeltaXOf(d) == IF IsNum(d.x) THEN d.x ELSE 0

EmptyDelta == [x |-> Undefined, y |-> Undefined]
EmptyStart == [x |-> Undefined, y |-> Undefined, time |-> Undefined, pointerId |-> Undefined]

NoTimer == 0 - 1
NoSlidePos == [k \in KeyRange |-> Undefined]

----------------------------------------------------------------------------
(* Internal functions *)

\* part_000: (slides.length + (idx % slides.length)) % slides.length; x % 0 is NaN
circle000(idx, n) == IF n = 0 THEN NaN ELSE JSRem(n + JSRem(idx, n), n)

\* part_001: (idx + length) % length
circle001(idx, n) == IF n = 0 THEN NaN ELSE JSRem(idx + n, n)

\* a circle() that clamps to the track instead of wrapping
circleClamped(idx) ==
  IF idx < 0 THEN 0 ELSE IF idx > nSlides - 1 THEN nSlides - 1 ELSE idx

circle(idx) ==
  IF variant = "part_000" THEN circle000(idx, nSlides) ELSE circle001(idx, length)

\* move(idx, dist, speed): translate() touches only the slide's style; the
\* table entry is written whether or not a slide exists at idx
move(sp, idx, dist) == [k \in KeyRange |-> IF k = idx THEN dist ELSE sp[k]]

\* the keys of the table that hold a value
Written(sp) == {k \in KeyRange : sp[k] # Undefined}

\* getPos()
getPos000(i, len) == IF i >= len THEN i - len ELSE i
getPos ==
  IF variant = "part_000" THEN getPos000(index, length) ELSE index

\* a timer that is left running when one is pending
restartedKeepsPending(pending, ms) == IF pending = NoTimer THEN ms ELSE pending

\* if (pending) clearTimeout(pending); pending = setTimeout(..., ms)
restarted(pending, ms) == ms

\* a cancellation that leaves the timer pending
cancelledNot(pending) == pending

\* clearTimeout(pending)
cancelled(pending) == NoTimer

\* the last handler and the argument the properties need of it
Op(name, arg) == [name |-> name, arg |-> arg]

\* no timer is pending, so no age is kept
NoSince == [wheel |-> Undefined, resize |-> Undefined]

\* applyResistance has not run
NoFraction == [dx |-> Undefined, num |-> Undefined, den |-> Undefined]

\* the last handler rendered no drag
NoDrawing == <<>>

\* the engine is driven directly, without a <swipe-slider> element around it
NoComponent ==
  [frames |-> 0, swipe |-> FALSE, ready |-> FALSE, orphans |-> 0, killed |-> FALSE]

\* one notification: the hook's name and its numeric arguments
Note(name, pos, dir) == [name |-> name, pos |-> pos, dir |-> dir]

----------------------------------------------------------------------------
(* setup(): the write phase of the layout *)

\* an initialDist with the two sides exchanged
initialDistSwapped(idx, i, w) == IF idx > i THEN w ELSE IF idx < i THEN 0 - w ELSE 0

\* index > i ? -width : index < i ? width : 0
initialDist(idx, i, w) == IF idx > i THEN 0 - w ELSE IF idx < i THEN w ELSE 0

RECURSIVE setupLoop(_, _, _, _)
\* for (i = length - 1; i >= 0; i--) move(i, initialDist, 0)
setupLoop(sp, i, idx, w) ==
  IF i < 0 THEN sp
  ELSE setupLoop(move(sp, i, initialDist(idx, i, w)), i - 1, idx, w)

\* slidePos = new Array(length), then the loop
setupPos(len, idx, w) == setupLoop(NoSlidePos, len - 1, idx, w)

\* detachEvents(): the start, move and end types of the supported input
\* family, the mouse types, wheel, transitionend and resize
detached000 ==
  (IF supports.pointerEvents
     THEN {"pointerdown", "pointermove", "pointerup", "pointercancel"}
     ELSE {"touchstart", "touchmove", "touchend"})
  \cup {"mousedown", "mousemove", "mouseup", "mouseleave",
        "wheel", "transitionend", "resize"}

detached001 ==
  (IF supports.pointerEvents
     THEN {"pointerdown", "pointermove", "pointerup", "pointercancel", "pointerleave"}
     ELSE {"touchstart", "touchmove", "touchend"})
  \cup {"mousedown", "mousemove", "mouseup", "mouseleave",
        "wheel", "transitionend", "resize"}

\* a detachEvents that forgets the window's resize listener
detachEventsKeepsResize(ls) ==
  ls \ ((IF variant = "part_000" THEN detached000 ELSE detached001) \ {"resize"})

detachEvents(ls) ==
  ls \ (IF variant = "part_000" THEN detached000 ELSE detached001)

\* attachEvents()
attachEvents(ls, cfg) ==
  ls \cup (IF supports.pointerEvents THEN {"pointerdown"}
           ELSE IF supports.touch THEN {"touchstart"} ELSE {})
     \cup (IF cfg.draggable /\ ~supports.pointerEvents THEN {"mousedown"} ELSE {})
     \cup (IF cfg.mousewheel THEN {"wheel"} ELSE {})
     \cup {"transitionend", "resize"}

----------------------------------------------------------------------------
(* Construction: Swipe(container, options) *)

Variants == {"part_000", "part_001"}

\* an installation: the input families the browser offers and the options
\* the caller passes over the defaults of the constructor
Install(pe, to, dr, mw) ==
  [supports |-> [pointerEvents |-> pe, touch |-> to],
   config |-> [draggable |-> dr, mousewheel |-> mw, ignore |-> TRUE, paused |-> FALSE]]

\* one input family each: pointer events, legacy touch, mouse dragging, wheel
Installs ==
  { Install(TRUE, TRUE, FALSE, FALSE),
    Install(FALSE, TRUE, FALSE, FALSE),
    Install(FALSE, FALSE, TRUE, FALSE),
    Install(FALSE, FALSE, FALSE, TRUE) }

\* the installation under which the host drives the public control surface
ApiInstalls == { Install(TRUE, TRUE, FALSE, TRUE) }

InitWith(installs) ==
  /\ variant \in Variants
  /\ \E i \in installs : supports = i.supports /\ config = i.config
  /\ nSlides \in 1..MaxN
  /\ width \in Widths
  /\ index \in StartSlides          \* parseInt(config.startSlide, 10) || 0
  /\ length = nSlides
  /\ slidePos = setupPos(length, index, width)
  /\ start = EmptyStart
  /\ delta = EmptyDelta
  /\ isScrolling = "undefined"
  /\ captured = FALSE
  /\ listeners = attachEvents({}, config)
  /\ wheelEndTimeout = NoTimer
  /\ rafQueue = <<>>
  /\ fired = <<>>
  /\ resizeTimer = NoTimer
  /\ since = NoSince
  /\ resisted = NoFraction
  /\ drawn = NoDrawing
  /\ component = NoComponent
  /\ op = Op("Swipe", Undefined)

----------------------------------------------------------------------------
(* Public control surface *)

\* setup(), called without options, with the container measuring w: what it
\* does to the layout and to the listeners
setupEffect(w) ==
  LET cfg == config
  IN /\ config' = cfg
     /\ length' = nSlides
     /\ IF nSlides = 0
          THEN UNCHANGED <<width, slidePos, listeners>>
          ELSE /\ width' = w
               /\ slidePos' = setupPos(nSlides, index, w)
               /\ listeners' = attachEvents(detachEvents(listeners), cfg)

\* setup() called by the host
Setup(w) ==
  /\ setupEffect(w)
  /\ fired' = <<>>
  /\ drawn' = NoDrawing
  /\ UNCHANGED component
  /\ op' = Op("setup", Undefined)
  /\ UNCHANGED <<resizeTimer, since, resisted, variant, supports, nSlides, index, start,
                 delta, isScrolling, captured, wheelEndTimeout, rafQueue>>

\* a resize signal of the window: debouncedSetup()
OnResize ==
  /\ "resize" \in listeners
  /\ resizeTimer' = restarted(resizeTimer, ResizeDelayMs)
  /\ since' = [since EXCEPT !.resize = 0]
  /\ fired' = <<>>
  /\ drawn' = NoDrawing
  /\ UNCHANGED component
  /\ op' = Op("resize", resizeTimer)
  /\ UNCHANGED <<resisted, variant, supports, config, nSlides, length, width, index,
                 slidePos, start, delta, isScrolling, captured, listeners,
                 wheelEndTimeout, rafQueue>>

\* the timer of debouncedSetup fires: setup()
ResizeEnd(w) ==
  /\ resizeTimer = 0
  /\ setupEffect(w)
  /\ resizeTimer' = NoTimer
  /\ since' = [since EXCEPT !.resize = Undefined]
  /\ fired' = <<>>
  /\ drawn' = NoDrawing
  /\ UNCHANGED component
  /\ op' = Op("resizeEnd", Undefined)
  /\ UNCHANGED <<resisted, variant, supports, nSlides, index, start, delta,
                 isScrolling, captured, wheelEndTimeout, rafQueue>>

\* kill(): the styles it resets are not state of the model, and no slide
\* carries data-cloned, which nothing in the engine sets
killEffect ==
  /\ listeners' = detachEvents(listeners)
  /\ resizeTimer' = cancelled(resizeTimer)
  /\ wheelEndTimeout' = cancelled(wheelEndTimeout)
  /\ since' = NoSince

\* kill() called by the host
Kill ==
  /\ killEffect
  /\ fired' = <<>>
  /\ drawn' = NoDrawing
  /\ UNCHANGED component
  /\ op' = Op("kill", Undefined)
  /\ UNCHANGED <<resisted, variant, supports, config, nSlides, length, width, index,
                 slidePos, start, delta, isScrolling, captured, rafQueue>>

RECURSIVE slideToLoop(_, _, _, _)
\* while (diff--) move(circle((to > index ? to : index) - diff - 1), width * direction, 0)
slideToLoop(sp, diff, hi, dist) ==
  IF diff = 0 THEN sp
  ELSE slideToLoop(move(sp, circle(hi - (diff - 1) - 1), dist), diff - 1, hi, dist)

\* the effect of slideTo(to) on <<slidePos, index, direction>>; <<>> when it returns early
slideToResult(to) ==
  IF index = to THEN <<>>
  ELSE LET direction == IF index - to > 0 THEN 1 ELSE 0 - 1
           diff == Abs(index - to) - 1
           sp1 == slideToLoop(slidePos, diff, IF to > index THEN to ELSE index,
                              width * direction)
           to2 == circle(to)
           sp2 == move(sp1, index, width * direction)
           sp3 == move(sp2, to2, 0)
       IN <<sp3, to2, direction>>

\* slidePos is assigned by the first setup() that finds a slide, together
\* with width; until then it is undefined and a write to it throws
unallocated == width = Undefined

\* whether slideTo(to) throws: it is past `index === to` and its first
\* move() runs slidePos[idx] = dist on an undefined slidePos
slideToThrows(to) == index # to /\ unallocated

\* the state change of a slideTo(to) call made by handler `name`; the model
\* does not follow the engine to an index of NaN (circle() over no slide)
slideTo(name, to) ==
  LET r == slideToResult(to)
  IN /\ IF slideToThrows(to)
          THEN /\ fired' = <<Note("TypeError", 0, 0)>>
               /\ UNCHANGED <<slidePos, index, rafQueue>>
          ELSE IF r = <<>>
          THEN /\ fired' = <<>>
               /\ UNCHANGED <<slidePos, index, rafQueue>>
          ELSE /\ Len(rafQueue) < MaxRaf
               /\ r[2] \in MinIndex..MaxIndex
               /\ slidePos' = r[1]
               /\ index' = r[2]
               /\ rafQueue' = Append(rafQueue, r[3])
               /\ fired' = <<>>
     /\ drawn' = NoDrawing
     /\ UNCHANGED component
     /\ op' = Op(name, to)
     /\ UNCHANGED <<resizeTimer, since, resisted, variant, supports, config, nSlides, length, width, start, delta,
                    isScrolling, captured, listeners, wheelEndTimeout>>

Slide(to) == slideTo("slide", to)

\* prev()
Prev == slideTo("prev", index - 1)

\* a next() guard that is off by one: index < slides.length
nextAllowedOffByOne(idx, n) == idx < n

\* the guard of next(): index < slides.length - 1
nextAllowed(idx, n) == idx < n - 1

\* next()
Next_ ==
  IF nextAllowed(index, nSlides)
    THEN slideTo("next", index + 1)
    ELSE /\ fired' = <<>>
         /\ drawn' = NoDrawing
         /\ UNCHANGED component
         /\ op' = Op("next", Undefined)
         /\ UNCHANGED <<resizeTimer, since, resisted, variant, supports, config, nSlides, length, width, index,
                        slidePos, start, delta, isScrolling, captured, listeners,
                        wheelEndTimeout, rafQueue>>

\* the frame callback queued by slideTo: runCallback(getPos(), slides[index], direction)
RafFire ==
  /\ rafQueue # <<>>
  /\ fired' = <<Note("callback", getPos, Head(rafQueue))>>
  /\ drawn' = NoDrawing
  /\ UNCHANGED component
  /\ rafQueue' = Tail(rafQueue)
  /\ op' = Op("frame", Undefined)
  /\ UNCHANGED <<resizeTimer, since, resisted, variant, supports, config, nSlides, length, width, index, slidePos,
                 start, delta, isScrolling, captured, listeners, wheelEndTimeout>>

SetIndex(i) ==
  /\ index' = i
  /\ fired' = <<>>
  /\ drawn' = NoDrawing
  /\ UNCHANGED component
  /\ op' = Op("setIndex", Undefined)
  /\ UNCHANGED <<resizeTimer, since, resisted, variant, supports, config, nSlides, length, width, slidePos, start,
                 delta, isScrolling, captured, listeners, wheelEndTimeout, rafQueue>>

----------------------------------------------------------------------------
(* Gesture sessions *)

\* EVENT_TYPES[type].move and .end; part_000 attaches the same types in
\* onPointerDown / onTouchStart / onMouseDown, without pointerleave
sessionTypes000(kind) ==
  IF kind = "pointer" THEN {"pointermove", "pointerup", "pointercancel"}
  ELSE IF kind = "touch" THEN {"touchmove", "touchend"}
  ELSE {"mousemove", "mouseup", "mouseleave"}

sessionTypes001(kind) ==
  IF kind = "pointer" THEN {"pointermove", "pointerup", "pointercancel", "pointerleave"}
  ELSE IF kind = "touch" THEN {"touchmove", "touchend"}
  ELSE {"mousemove", "mouseup", "mouseleave"}

sessionTypes(kind) ==
  IF variant = "part_000" THEN sessionTypes000(kind) ELSE sessionTypes001(kind)

startType(kind) ==
  IF kind = "pointer" THEN "pointerdown"
  ELSE IF kind = "touch" THEN "touchstart" ELSE "mousedown"

moveType(kind) ==
  IF kind = "pointer" THEN "pointermove"
  ELSE IF kind = "touch" THEN "touchmove" ELSE "mousemove"

endTypes(kind) == sessionTypes001(kind) \ {moveType(kind)}

Kinds == {"pointer", "touch", "mouse"}

\* an onStart that does not look at config.paused
startRejectedUnpaused(kind, isPrimary, matches) ==
  \/ kind = "pointer" /\ ~isPrimary
  \/ config.ignore /\ matches

\* whether onStart / onPointerDown / onTouchStart / onMouseDown returns early
startRejected(kind, isPrimary, matches) ==
  \/ variant = "part_001" /\ config.paused
  \/ kind = "pointer" /\ ~isPrimary
  \/ config.ignore /\ matches

\* a press of the given kind at <<x, y>>
OnStart(kind, isPrimary, pointerId, x, y, matches) ==
  /\ startType(kind) \in listeners
  /\ IF startRejected(kind, isPrimary, matches)
       THEN /\ fired' = <<>>
            /\ drawn' = NoDrawing
            /\ UNCHANGED component
            /\ UNCHANGED <<start, delta, isScrolling, captured, listeners>>
       ELSE /\ start' = [x |-> x, y |-> y, time |-> 0,
                         pointerId |-> IF kind = "pointer" THEN pointerId ELSE Undefined]
            /\ isScrolling' = "undefined"
            /\ delta' = EmptyDelta
            /\ captured' = IF variant = "part_000" /\ kind # "pointer"
                             THEN captured ELSE FALSE
            /\ listeners' = listeners \cup sessionTypes(kind)
            /\ fired' = <<Note("dragStart", getPos, 0)>>
            /\ drawn' = NoDrawing
            /\ UNCHANGED component
  /\ op' = Op("start", Undefined)
  /\ UNCHANGED <<resizeTimer, since, resisted, variant, supports, config, nSlides, length, width, index, slidePos,
                 wheelEndTimeout, rafQueue>>

\* a resistance that leaves twice the width to go
applyResistanceTwice(deltaX) ==
  LET atStart == index = 0 /\ deltaX > 0
      atEnd == index = nSlides - 1 /\ deltaX < 0
  IN IF atStart \/ atEnd
       THEN [dx |-> deltaX, num |-> 2 * deltaX * width, den |-> Abs(deltaX) + width]
       ELSE [dx |-> deltaX, num |-> deltaX, den |-> 1]

\* applyResistance(deltaX): the offset the active slide is drawn at, as the
\* exact fraction num / den.  deltaX / (|deltaX| / width + 1) is
\* deltaX * width / (|deltaX| + width) for every width > 0.
applyResistance(deltaX) ==
  LET atStart == index = 0 /\ deltaX > 0
      atEnd == index = nSlides - 1 /\ deltaX < 0
  IN IF atStart \/ atEnd
       THEN [dx |-> deltaX, num |-> deltaX * width, den |-> Abs(deltaX) + width]
       ELSE [dx |-> deltaX, num |-> deltaX, den |-> 1]

\* a rendering that forgets the neighbours
translateActiveOnly(r) ==
  IF index \in 0..(nSlides - 1) /\ IsNum(slidePos[index])
    THEN <<[idx |-> index, num |-> r.num + slidePos[index] * r.den, den |-> r.den]>>
    ELSE <<>>

\* translateNeighbors(dx): the translate() calls that find a slide, in the
\* order index - 1, index, index + 1, each with the offset dx + slidePos[idx]
\* as the exact fraction num / den
translateNeighbors(r) ==
  LET draw(k) == IF k \in 0..(nSlides - 1)
                   THEN <<[idx |-> k,
                           num |-> IF IsNum(slidePos[k]) THEN r.num + slidePos[k] * r.den
                                   ELSE NaN,
                           den |-> r.den]>>
                   ELSE <<>>
  IN draw(index - 1) \o draw(index) \o draw(index + 1)

\* an axis lock without the margin
axisLockNoMargin(dx, dy) == IF Abs(dy) > Abs(dx) THEN "true" ELSE "false"

\* isScrolling = Math.abs(delta.y) > Math.abs(delta.x) + sensitivity
axisLock(dx, dy) == IF Abs(dy) > Abs(dx) + Sensitivity THEN "true" ELSE "false"

\* whether handleEvent / onPointerMove / onTouchMove drops the move
moveDropped(kind, isPrimary, pointerId, single) ==
  \/ kind = "pointer" /\ (~isPrimary \/ pointerId # start.pointerId)
  \/ kind = "touch" /\ ~single

\* a move of the given kind to <<x, y>>
OnMove(kind, isPrimary, pointerId, single, x, y) ==
  /\ moveType(kind) \in listeners
  /\ IF moveDropped(kind, isPrimary, pointerId, single)
       THEN /\ fired' = <<>>
            /\ drawn' = NoDrawing
            /\ UNCHANGED component
            /\ UNCHANGED <<delta, isScrolling, captured>>
       ELSE LET d == [x |-> Sub(x, start.x), y |-> Sub(y, start.y)]
                lock == IF isScrolling = "undefined" THEN axisLock(d.x, d.y)
                        ELSE isScrolling
            IN /\ delta' = d
               /\ isScrolling' = lock
               /\ captured' = IF isScrolling = "undefined" /\ lock = "false"
                                 /\ ~captured /\ kind = "pointer"
                                THEN TRUE ELSE captured
               /\ fired' = IF lock = "false" THEN <<Note("runMove", 0, 0)>> ELSE <<>>
               /\ drawn' = IF lock = "false" THEN translateNeighbors(applyResistance(d.x))
                           ELSE NoDrawing
               /\ UNCHANGED component
  /\ op' = Op("move", Undefined)
  /\ UNCHANGED <<resizeTimer, since, resisted, variant, supports, config, nSlides, length, width, index, slidePos,
                 start, listeners, wheelEndTimeout, rafQueue>>

----------------------------------------------------------------------------
(* Commit evaluation *)

\* an isValidSlide that forgets the duration
isValidSlideAnyDuration(duration, absX, w) ==
  \/ absX > MinSwipePx
  \/ 2 * absX > w

\* (duration < 250 && absX > 20) || absX > width / 2
isValidSlide(duration, absX, w) ==
  \/ (IsNum(duration) /\ duration < ValidDurationMs /\ absX > MinSwipePx)
  \/ 2 * absX > w

\* an isPastBounds that forgets the last slide
isPastBoundsStartOnly(idx, dx, n) == idx = 0 /\ dx > 0

\* (!index && delta.x > 0) || (index === slides.length - 1 && delta.x < 0)
isPastBounds(idx, dx, n) ==
  \/ (idx = 0 /\ dx > 0)
  \/ (idx = n - 1 /\ dx < 0)

\* a direction with the signs exchanged
directionOfReversed(dx) == IF dx > 0 THEN 0 - 1 ELSE IF dx < 0 THEN 1 ELSE 0

\* delta.x ? Math.abs(delta.x) / delta.x : 0
directionOf(dx) == IF dx > 0 THEN 1 ELSE IF dx < 0 THEN 0 - 1 ELSE 0

\* the three moves and the index of a commit towards the next slide
commitNext(sp, idx, w) ==
  LET sp1 == move(sp, idx - 1, 0 - w)
      sp2 == move(sp1, idx, Sub(sp1[idx], w))
      c == circle(idx + 1)
      sp3 == move(sp2, c, Sub(sp2[c], w))
  IN [sp |-> sp3, idx |-> c]

\* the three moves and the index of a commit towards the previous slide
commitPrev(sp, idx, w) ==
  LET sp1 == move(sp, idx + 1, w)
      sp2 == move(sp1, idx, Add(sp1[idx], w))
      c == circle(idx - 1)
      sp3 == move(sp2, c, Add(sp2[c], w))
  IN [sp |-> sp3, idx |-> c]

\* a snap-back with the neighbours' sides exchanged
snapBackSwapped(sp, idx, w) == move(move(move(sp, idx - 1, w), idx, 0), idx + 1, 0 - w)

\* the three moves of a snap-back
snapBack(sp, idx, w) == move(move(move(sp, idx - 1, 0 - w), idx, 0), idx + 1, w)

\* the position a notification reports after the index became idx
posOf(idx) == IF variant = "part_000" THEN getPos000(idx, length) ELSE idx

\* an evaluation guard that forgets to look at delta.x
evaluatedAnyDelta(lock, dx) == lock # "true"

\* an evaluation guard that forgets the axis lock
evaluatedAnyAxis(lock, dx) == dx # 0

\* the guard of the evaluation: !isScrolling && delta.x
evaluated(lock, dx) == lock # "true" /\ dx # 0

\* finishSwipe(): the table, the index and the notifications it leaves
finishSwipe ==
  LET dx == DeltaXOf(delta)
      valid == isValidSlide(start.time, Abs(dx), width)
      past == isPastBounds(index, dx, nSlides)
      direction == directionOf(dx)
  IN IF evaluated(isScrolling, dx)
       THEN IF valid /\ ~past
              THEN LET r == IF direction < 0 THEN commitNext(slidePos, index, width)
                            ELSE commitPrev(slidePos, index, width)
                   IN [sp |-> r.sp, idx |-> r.idx,
                       fired |-> <<Note("callback", posOf(r.idx), direction),
                                   Note("dragEnd", posOf(r.idx), 0)>>]
              ELSE [sp |-> snapBack(slidePos, index, width), idx |-> index,
                    fired |-> <<Note("dragEnd", posOf(index), 0)>>]
       ELSE [sp |-> slidePos, idx |-> index,
             fired |-> <<Note("dragEnd", posOf(index), 0)>>]

\* the offsets of a table stay within the model's range
bounded(sp) == \A k \in KeyRange : IsNum(sp[k]) => Abs(sp[k]) <= MaxOffset

\* a release, cancel or leave of the given kind
OnEnd(type, kind, isPrimary, pointerId) ==
  /\ type \in endTypes(kind)
  /\ type \in listeners
  /\ IF kind = "pointer" /\ ~isPrimary
       THEN /\ fired' = <<>>
            /\ drawn' = NoDrawing
            /\ UNCHANGED component
            /\ UNCHANGED <<captured, listeners, slidePos, index>>
       ELSE LET r == finishSwipe
            IN /\ bounded(r.sp)
               /\ captured' = IF kind = "pointer" \/ variant = "part_001"
                                THEN FALSE ELSE captured
               /\ listeners' = listeners \ sessionTypes(kind)
               /\ slidePos' = r.sp
               /\ index' = r.idx
               /\ fired' = r.fired
               /\ drawn' = NoDrawing
               /\ UNCHANGED component
  /\ op' = Op("end", Undefined)
  /\ UNCHANGED <<resizeTimer, since, resisted, variant, supports, config, nSlides, length, width, start, delta,
                 isScrolling, wheelEndTimeout, rafQueue>>

----------------------------------------------------------------------------
(* Wheel input *)

\* deltaMode 1 counts lines, deltaMode 2 pages; part_000 takes deltaX as it comes
normalized(d, mode) ==
  IF variant = "part_000" THEN d
  ELSE IF mode = 1 THEN d * LinePx
  ELSE IF mode = 2 THEN d * width
  ELSE d

\* a damping factor that steps down on reaching a threshold
slowerFromThreshold(absDelta, w) ==
  IF absDelta >= w * 2 THEN 1
  ELSE IF 2 * absDelta >= w * 3 THEN 5
  ELSE IF absDelta >= w THEN 10
  ELSE IF 2 * absDelta >= w THEN 30
  ELSE 70

\* the damping factor, in hundredths
slower(absDelta, w) ==
  IF absDelta > w * 2 THEN 1
  ELSE IF 2 * absDelta > w * 3 THEN 5
  ELSE IF absDelta > w THEN 10
  ELSE IF 2 * absDelta > w THEN 30
  ELSE 70

\* deltaX * slower, exact for the deltas the model feeds
damped(d, pct) == (d * pct) \div 100

\* a wheel event; the model follows a burst up to |delta.x|, |delta.y| <= cap
OnWheelWithin(cap, rawX, rawY, mode) ==
  /\ "wheel" \in listeners
  /\ LET deltaX == normalized(rawX, mode)
         deltaY == normalized(rawY, mode)
         old == DeltaXOf(delta)
         oldY == IF IsNum(delta.y) THEN delta.y ELSE 0
         nx == old - damped(deltaX, slower(Abs(old), width))
     IN IF (variant = "part_001" /\ config.paused) \/ Abs(deltaX) < WheelMinPx
          THEN /\ op' = Op("wheel", Undefined)
               /\ drawn' = NoDrawing
               /\ UNCHANGED <<start, delta, wheelEndTimeout, since>>
          ELSE /\ Abs(nx) <= cap
               /\ Abs(oldY - deltaY \div 2) <= cap
               /\ op' = Op("wheel", wheelEndTimeout)
               /\ start' = IF old = 0 THEN [start EXCEPT !.time = 0] ELSE start
               /\ delta' = [x |-> nx, y |-> oldY - deltaY \div 2]
               /\ drawn' = translateNeighbors(applyResistance(nx))
               /\ wheelEndTimeout' = restarted(wheelEndTimeout, WheelSilenceMs)
               /\ since' = [since EXCEPT !.wheel = 0]
  /\ fired' = <<>>
  /\ UNCHANGED component
  /\ UNCHANGED <<resizeTimer, resisted, variant, supports, config, nSlides, length, width, index, slidePos,
                 isScrolling, captured, listeners, rafQueue>>

OnWheel(rawX, rawY, mode) == OnWheelWithin(MaxWheelX, rawX, rawY, mode)

\* the wheel-silence timer fires: finishSwipe(); delta = {}; wheelEndTimeout = null
WheelEnd ==
  /\ wheelEndTimeout = 0
  /\ LET r == finishSwipe
     IN /\ bounded(r.sp)
        /\ slidePos' = r.sp
        /\ index' = r.idx
        /\ fired' = r.fired
        /\ drawn' = NoDrawing
        /\ UNCHANGED component
  /\ delta' = EmptyDelta
  /\ wheelEndTimeout' = NoTimer
  /\ since' = [since EXCEPT !.wheel = Undefined]
  /\ op' = Op("wheelEnd", delta.x)
  /\ UNCHANGED <<resizeTimer, resisted, variant, supports, config, nSlides, length, width, start,
                 isScrolling, captured, listeners, rafQueue>>

\* a countdown or an age after d more ms; ages saturate at MaxAge
countdown(t, d) == IF t = NoTimer THEN NoTimer ELSE t - d
aged(a, d) == IF IsNum(a) THEN (IF a + d > MaxAge THEN MaxAge ELSE a + d) ELSE a

\* d ms pass without any event: a timer that is due fires before the clock
\* moves on, and the clock does not move past the expiry of a pending timer
Elapse(d) ==
  /\ d > 0
  /\ wheelEndTimeout # 0 /\ resizeTimer # 0
  /\ wheelEndTimeout # NoTimer => d <= wheelEndTimeout
  /\ resizeTimer # NoTimer => d <= resizeTimer
  /\ wheelEndTimeout' = countdown(wheelEndTimeout, d)
  /\ resizeTimer' = countdown(resizeTimer, d)
  /\ start' = [start EXCEPT !.time = aged(start.time, d)]
  /\ since' = [wheel |-> aged(since.wheel, d), resize |-> aged(since.resize, d)]
  /\ fired' = <<>>
  /\ drawn' = NoDrawing
  /\ UNCHANGED component
  /\ op' = Op("tick", Undefined)
  /\ UNCHANGED <<resisted, variant, supports, config, nSlides, length, width, index,
                 slidePos, delta, isScrolling, captured, listeners, rafQueue>>

\* the next instant at which the engine can tell that time has passed: the
\* expiry of the first pending timer or, with none pending, the age at which
\* a swipe stops being a fast one
nextInstant ==
  IF wheelEndTimeout # NoTimer /\ resizeTimer # NoTimer
    THEN (IF wheelEndTimeout < resizeTimer THEN wheelEndTimeout ELSE resizeTimer)
  ELSE IF wheelEndTimeout # NoTimer THEN wheelEndTimeout
  ELSE IF resizeTimer # NoTimer THEN resizeTimer
  ELSE MaxAge

\* time passes up to that instant
Tick == Elapse(nextInstant)

----------------------------------------------------------------------------
(* Slides added by the host *)

Nodes == {"new", "first", "last"}

\* part_000: element.children[0]?.remove(); element.appendChild(slide)
\* part_001: element.appendChild(slide)
appended(n, node) ==
  IF variant = "part_000"
    THEN IF node = "last" /\ n >= 2 THEN n - 1
         ELSE IF n = 0 THEN 1 ELSE n
    ELSE IF node = "new" \/ n = 0 THEN n + 1 ELSE n

\* part_000: element.children[length - 1]?.remove(); element.prepend(slide)
\* part_001: element.prepend(slide)
prepended(n, node) ==
  IF variant = "part_000"
    THEN IF node = "first" /\ n >= 2 THEN n - 1
         ELSE IF n = 0 THEN 1 ELSE n
    ELSE IF node = "new" \/ n = 0 THEN n + 1 ELSE n

\* part_000: index--; part_001 leaves the index alone
appendIndex(idx) == IF variant = "part_000" THEN idx - 1 ELSE idx

\* index++
prependIndex(idx) == idx + 1

\* where appendSlide(node) leaves the slide that was at idx among n slides:
\* part_000 removes the first child (the node itself, if it is that child)
\* and puts the node last; part_001 puts the node last.  Undefined when the
\* slide is no longer in the track, or when idx named no slide.
keptAppend(n, idx, node) ==
  IF idx \notin 0..(n - 1) THEN Undefined
  ELSE IF variant = "part_000"
    THEN IF idx = 0
           THEN (IF node = "first" \/ (node = "last" /\ n = 1) THEN n - 1 ELSE Undefined)
           ELSE idx - 1
    ELSE IF node = "first" THEN (IF idx = 0 THEN n - 1 ELSE idx - 1)
         ELSE idx

\* where prependSlide(node) leaves the slide that was at idx among n slides:
\* part_000 removes the last child (the node itself, if it is that child)
\* and puts the node first; part_001 puts the node first
keptPrepend(n, idx, node) ==
  IF idx \notin 0..(n - 1) THEN Undefined
  ELSE IF variant = "part_000"
    THEN IF idx = n - 1
           THEN (IF node = "last" \/ (node = "first" /\ n = 1) THEN 0 ELSE Undefined)
           ELSE IF node = "first" THEN idx ELSE idx + 1
    ELSE IF node = "last" THEN (IF idx = n - 1 THEN 0 ELSE idx + 1)
         ELSE IF node = "first" THEN idx
         ELSE idx + 1

\* the mutation of the track, the shift of the index and the setup() that
\* follows; kept is where the slide that was active is afterwards
addSlide(name, n, idx, w, kept) ==
  /\ n \in 1..MaxN
  /\ idx \in MinIndex..MaxIndex
  /\ nSlides' = n
  /\ index' = idx
  /\ length' = n
  /\ width' = w
  /\ slidePos' = setupPos(n, idx, w)
  /\ listeners' = attachEvents(detachEvents(listeners), config)
  /\ fired' = <<>>
  /\ drawn' = NoDrawing
  /\ UNCHANGED component
  /\ op' = Op(name, kept)
  /\ UNCHANGED <<resizeTimer, since, resisted, variant, supports, config, start, delta, isScrolling, captured,
                 wheelEndTimeout, rafQueue>>

AppendSlide(node, w) ==
  addSlide("appendSlide", appended(nSlides, node), appendIndex(index), w,
           keptAppend(nSlides, index, node))

PrependSlide(node, w) ==
  addSlide("prependSlide", prepended(nSlides, node), prependIndex(index), w,
           keptPrepend(nSlides, index, node))

----------------------------------------------------------------------------
(* Pausing the gestures: part_001 only *)

\* pause: () => (config.paused = true)
Pause ==
  /\ variant = "part_001"
  /\ config' = [config EXCEPT !.paused = TRUE]
  /\ fired' = <<>>
  /\ drawn' = NoDrawing
  /\ UNCHANGED component
  /\ op' = Op("pause", Undefined)
  /\ UNCHANGED <<resizeTimer, since, resisted, variant, supports, nSlides, length, width,
                 index, slidePos, start, delta, isScrolling, captured, listeners,
                 wheelEndTimeout, rafQueue>>

\* resume: () => (config.paused = false)
Resume ==
  /\ variant = "part_001"
  /\ config' = [config EXCEPT !.paused = FALSE]
  /\ fired' = <<>>
  /\ drawn' = NoDrawing
  /\ UNCHANGED component
  /\ op' = Op("resume", Undefined)
  /\ UNCHANGED <<resizeTimer, since, resisted, variant, supports, nSlides, length, width,
                 index, slidePos, start, delta, isScrolling, captured, listeners,
                 wheelEndTimeout, rafQueue>>

----------------------------------------------------------------------------
(* The engine *)

\* presses, moves and ends of every input family, with the travels of dxs
Gestures(dxs, dys) ==
  \/ \E kind \in Kinds, isPrimary \in BOOLEAN, pointerId \in PointerIds,
        p \in PressPoints, matches \in BOOLEAN :
       OnStart(kind, isPrimary, pointerId, p[1], p[2], matches)
  \/ \E kind \in Kinds, isPrimary \in BOOLEAN, pointerId \in PointerIds,
        single \in BOOLEAN, p \in PressPoints, dx \in dxs, dy \in dys :
       OnMove(kind, isPrimary, pointerId, single, p[1] + dx, p[2] + dy)
  \/ \E kind \in Kinds : \E type \in endTypes(kind), isPrimary \in BOOLEAN,
        pointerId \in PointerIds :
       OnEnd(type, kind, isPrimary, pointerId)

Wheel ==
  \/ \E rawX \in WheelDeltaXs, rawY \in WheelDeltaYs, mode \in WheelModes :
       OnWheel(rawX, rawY, mode)
  \/ WheelEnd

\* the public control surface, driven by the host
Next ==
  \/ \E w \in Widths : Setup(w)
  \/ \E to \in IndexArgs : Slide(to)
  \/ Prev
  \/ Next_
  \/ RafFire
  \/ \E i \in IndexArgs : SetIndex(i)
  \/ \E node \in Nodes, w \in Widths : AppendSlide(node, w)
  \/ \E node \in Nodes, w \in Widths : PrependSlide(node, w)

Init == InitWith(ApiInstalls)

Spec == Init /\ [][Next]_vars

\* the navigation calls alone, from a layout whose start slide exists
NextNav ==
  \/ \E w \in Widths : Setup(w)
  \/ \E to \in IndexArgs : Slide(to)
  \/ Prev
  \/ Next_
  \/ RafFire

InitNav == Init /\ index \in 0..(nSlides - 1)

SpecNav == InitNav /\ [][NextNav]_vars

\* the gesture machine, over a layout the host only sets up
NextGesture ==
  \/ \E w \in Widths : Setup(w)
  \/ Gestures(DeltaXs, DeltaYs)
  \/ Wheel
  \/ Tick

InitGesture == InitWith(Installs)

SpecGesture == InitGesture /\ [][NextGesture]_vars

\* the sessions of one input family, which the host pauses and resumes
NextPress ==
  \/ Gestures(DeltaXs, PressDeltaYs)
  \/ Pause
  \/ Resume

InitPress == InitWith(Installs) /\ index \in 0..(nSlides - 1)

SpecPress == InitPress /\ [][NextPress]_vars

\* sessions released where they were pressed, among swipes
NextRelease == Gestures(ReleaseDeltaXs, {0})

InitRelease == InitPress

SpecRelease == InitRelease /\ [][NextRelease]_vars

\* pointer sessions with two pointers about, each of which may be the
\* primary pointer of its type
NextPointers ==
  \/ \E isPrimary \in BOOLEAN, pointerId \in TwoPointerIds, p \in PressPoints :
       OnStart("pointer", isPrimary, pointerId, p[1], p[2], FALSE)
  \/ \E isPrimary \in BOOLEAN, pointerId \in TwoPointerIds, p \in PressPoints,
        dx \in ReleaseDeltaXs :
       OnMove("pointer", isPrimary, pointerId, TRUE, p[1] + dx, p[2])
  \/ \E type \in endTypes("pointer"), isPrimary \in BOOLEAN, pointerId \in TwoPointerIds :
       OnEnd(type, "pointer", isPrimary, pointerId)

InitPointers == InitWith(ApiInstalls) /\ index \in 0..(nSlides - 1)

SpecPointers == InitPointers /\ [][NextPointers]_vars

\* one long wheel burst
NextWheel == \E e \in BurstEvents : OnWheelWithin(MaxBurstX, e.x, e.y, e.mode)

InitWheel == InitWith(ApiInstalls) /\ index \in 0..(nSlides - 1)

SpecWheel == InitWheel /\ [][NextWheel]_vars

\* wheel events in pixels and in pages, and the silence that ends a burst
NextModes ==
  \/ \E e \in ModeEvents : OnWheel(e.x, e.y, e.mode)
  \/ WheelEnd
  \/ Tick

InitModes == InitWheel

SpecModes == InitModes /\ [][NextModes]_vars

\* the life of an installation with pointer and wheel input: sessions, wheel
\* bursts, resize signals, setup() and kill(), with time passing from one
\* expiry to the next
NextLife ==
  \/ \E w \in Widths : Setup(w)
  \/ Gestures(LifeDeltaXs, LifeDeltaYs)
  \/ Wheel
  \/ OnResize
  \/ \E w \in Widths : ResizeEnd(w)
  \/ Tick
  \/ Kill

InitLife == InitWith(ApiInstalls) /\ index \in 0..(nSlides - 1)

SpecLife == InitLife /\ [][NextLife]_vars

\* the timers of that installation: wheel bursts and resize signals with time
\* passing in steps of Lapses as well, setup() and kill()
NextTimers ==
  \/ \E w \in Widths : Setup(w)
  \/ Wheel
  \/ OnResize
  \/ \E w \in Widths : ResizeEnd(w)
  \/ \E d \in Lapses : Elapse(d)
  \/ Tick
  \/ Kill

InitTimers == InitLife

SpecTimers == InitTimers /\ [][NextTimers]_vars

\* const resistedDelta = applyResistance(delta.x) of onMove and onWheel, for a
\* horizontal travel of deltaX: the offset the slides are drawn at
Resist(deltaX) ==
  /\ resisted' = applyResistance(deltaX)
  /\ fired' = <<>>
  /\ drawn' = NoDrawing
  /\ UNCHANGED component
  /\ op' = Op("resist", deltaX)
  /\ UNCHANGED <<variant, supports, config, nSlides, length, width, index, slidePos,
                 start, delta, isScrolling, captured, listeners, wheelEndTimeout,
                 resizeTimer, since, rafQueue>>

\* the drawn offset alone, over every travel of DragXs in both directions
NextResistance == \E d \in DragXs : Resist(d) \/ Resist(0 - d)

InitResistance == InitLife

SpecResistance == InitResistance /\ [][NextResistance]_vars

\* the host adds a child to the track, or removes every child, without a
\* call into the engine: `slides` is the live collection element.children
TrackGrows ==
  /\ nSlides < MaxN
  /\ nSlides' = nSlides + 1
  /\ fired' = <<>>
  /\ drawn' = NoDrawing
  /\ op' = Op("grown", Undefined)
  /\ UNCHANGED <<variant, supports, config, length, width, index, slidePos, start,
                 delta, isScrolling, captured, listeners, wheelEndTimeout,
                 resizeTimer, since, resisted, rafQueue, component>>

TrackEmptied ==
  /\ nSlides > 0
  /\ nSlides' = 0
  /\ fired' = <<>>
  /\ drawn' = NoDrawing
  /\ op' = Op("emptied", Undefined)
  /\ UNCHANGED <<variant, supports, config, length, width, index, slidePos, start,
                 delta, isScrolling, captured, listeners, wheelEndTimeout,
                 resizeTimer, since, resisted, rafQueue, component>>

\* Swipe(container, options) over a track without a child: setup() returns
\* at `if (!length) return`, before it measures, allocates or attaches
InitEmpty ==
  /\ variant \in Variants
  /\ \E i \in ApiInstalls : supports = i.supports /\ config = i.config
  /\ nSlides = 0
  /\ length = 0
  /\ width = Undefined
  /\ index \in StartSlides
  /\ slidePos = NoSlidePos
  /\ start = EmptyStart
  /\ delta = EmptyDelta
  /\ isScrolling = "undefined"
  /\ captured = FALSE
  /\ listeners = {}
  /\ wheelEndTimeout = NoTimer
  /\ resizeTimer = NoTimer
  /\ since = NoSince
  /\ resisted = NoFraction
  /\ rafQueue = <<>>
  /\ drawn = NoDrawing
  /\ component = NoComponent
  /\ fired = <<>>
  /\ op = Op("Swipe", Undefined)

\* the public operations over a track that is, or becomes, empty
NextEmpty ==
  \/ \E w \in Widths : Setup(w)
  \/ \E to \in IndexArgs : Slide(to)
  \/ Prev
  \/ Next_
  \/ RafFire
  \/ Kill
  \/ TrackGrows
  \/ TrackEmptied

SpecEmpty == InitEmpty /\ [][NextEmpty]_vars

----------------------------------------------------------------------------
(* The <swipe-slider> element *)

\* init(): kills the engine it holds, if any, and defers the construction of
\* the next one to the next frame.  component.killed tells that kill() was
\* the last of init() and kill() to be called.
ComponentInit ==
  /\ component.frames < MaxFrames
  /\ IF component.swipe
       THEN killEffect
       ELSE UNCHANGED <<listeners, resizeTimer, wheelEndTimeout, since>>
  /\ component' = [component EXCEPT !.frames = @ + 1, !.swipe = FALSE,
                                    !.ready = FALSE, !.killed = FALSE]
  /\ fired' = <<>>
  /\ drawn' = NoDrawing
  /\ op' = Op("init", Undefined)
  /\ UNCHANGED <<variant, supports, config, nSlides, length, width, index, slidePos,
                 start, delta, isScrolling, captured, resisted, rafQueue>>

\* the frame callback of init(): this.swipe = new Swipe(this, this._options)
\* and dataset.ready = 'true'.  An engine still held is overwritten and left
\* behind with its listeners attached.
ComponentFrame(startSlide, w) ==
  /\ component.frames > 0
  /\ component.swipe => component.orphans < MaxFrames
  /\ component' = [component EXCEPT !.frames = @ - 1, !.swipe = TRUE, !.ready = TRUE,
                                    !.orphans = IF component.swipe THEN @ + 1 ELSE @]
  /\ index' = startSlide
  /\ length' = nSlides
  /\ width' = w
  /\ slidePos' = setupPos(nSlides, startSlide, w)
  /\ start' = EmptyStart
  /\ delta' = EmptyDelta
  /\ isScrolling' = "undefined"
  /\ captured' = FALSE
  /\ listeners' = attachEvents({}, config)
  /\ wheelEndTimeout' = NoTimer
  /\ resizeTimer' = NoTimer
  /\ since' = NoSince
  /\ fired' = <<>>
  /\ drawn' = NoDrawing
  /\ op' = Op("firstLayout", Undefined)
  /\ UNCHANGED <<variant, supports, config, nSlides, resisted, rafQueue>>

\* kill() of the element: kills the engine it holds, if any, and deletes
\* dataset.ready
ComponentKill ==
  /\ IF component.swipe
       THEN killEffect
       ELSE UNCHANGED <<listeners, resizeTimer, wheelEndTimeout, since>>
  /\ component' = [component EXCEPT !.swipe = FALSE, !.ready = FALSE, !.killed = TRUE]
  /\ fired' = <<>>
  /\ drawn' = NoDrawing
  /\ op' = Op("kill", Undefined)
  /\ UNCHANGED <<variant, supports, config, nSlides, length, width, index, slidePos,
                 start, delta, isScrolling, captured, resisted, rafQueue>>

\* the element as the page constructs it, over a track with slides: no
\* engine yet
InitComponent ==
  /\ variant \in Variants
  /\ \E i \in ApiInstalls : supports = i.supports /\ config = i.config
  /\ nSlides \in 1..MaxN
  /\ length = 0
  /\ width = Undefined
  /\ index = 0
  /\ slidePos = NoSlidePos
  /\ start = EmptyStart
  /\ delta = EmptyDelta
  /\ isScrolling = "undefined"
  /\ captured = FALSE
  /\ listeners = {}
  /\ wheelEndTimeout = NoTimer
  /\ resizeTimer = NoTimer
  /\ since = NoSince
  /\ resisted = NoFraction
  /\ rafQueue = <<>>
  /\ drawn = NoDrawing
  /\ component = NoComponent
  /\ fired = <<>>
  /\ op = Op("SwipeSlider", Undefined)

\* the life of the element: init() (connectedCallback), the deferred first
\* layout, kill() (disconnectedCallback), and the resize signals and wheel
\* events its engine listens to
NextComponent ==
  \/ ComponentInit
  \/ \E startSlide \in StartSlides, w \in Widths : ComponentFrame(startSlide, w)
  \/ ComponentKill
  \/ OnResize
  \/ \E w \in Widths : ResizeEnd(w)
  \/ Tick

SpecComponent == InitComponent /\ [][NextComponent]_vars

\* every way the active slide changes with an onChange: fast horizontal
\* swipes in both directions, slide(to), prev(), next() and the frame callback
NextChange ==
  \/ Gestures(ChangeDeltaXs, {0})
  \/ \E to \in IndexArgs : Slide(to)
  \/ Prev
  \/ Next_
  \/ RafFire

InitChange == InitNav

SpecChange == InitChange /\ [][NextChange]_vars

\* the same over two slides or more, with every slide(to) aimed at a slide:
\* each frame callback that gets queued belongs to a call that changed the
\* index
NextFrame ==
  \/ Gestures(ChangeDeltaXs, {0})
  \/ \E to \in 0..(nSlides - 1) : Slide(to)
  \/ Prev
  \/ Next_
  \/ RafFire

InitFrame == InitNav /\ nSlides >= 2

SpecFrame == InitFrame /\ [][NextFrame]_vars

----------------------------------------------------------------------------
(* Properties *)

\* the active index names a slide
InRange == index \in 0..(nSlides - 1)

\* the onChange notifications among those of a handler
Changes(f) == SelectSeq(f, LAMBDA n : n.name = "callback")

\* the step ran finishSwipe() to its end: onDragEnd is its last statement
FinishRan(o, f) ==
  /\ o.name \in {"end", "wheelEnd"}
  /\ f # <<>>
  /\ f[Len(f)].name = "dragEnd"

\* the rest offsets of the slides around position idx of an n-slide track
RestAround(sp, idx, n, w) ==
  /\ sp[idx] = 0
  /\ (idx - 1 \in 0..(n - 1)) => sp[idx - 1] = 0 - w
  /\ (idx + 1 \in 0..(n - 1)) => sp[idx + 1] = w

\* C1: right after setup() has run (at construction, on a direct call, and at
\* the end of appendSlide / prependSlide), when the active index names a
\* slide, the active slide rests at 0, every slide before it at -W and every
\* slide after it at +W.
C1_SetupRestOffsets ==
  (op.name \in {"Swipe", "setup", "appendSlide", "prependSlide"} /\ InRange) =>
    /\ slidePos[index] = 0
    /\ \A j \in 0..(nSlides - 1) :
         /\ j < index => slidePos[j] = 0 - width
         /\ j > index => slidePos[j] = width

C1_Witness ==
  /\ op.name = "setup"
  /\ nSlides = 3 /\ index = 1 /\ width = 300
  /\ slidePos[0] = 0 - 300 /\ slidePos[1] = 0 /\ slidePos[2] = 300

\* C2: when finishSwipe() runs at the end of a session that did not resolve
\* VerticalScroll, with a non-zero delta.x, the active index changes exactly
\* when ((duration < 250 and |dx| > 20) or |dx| > W/2) and not ((index = 0 and
\* dx > 0) or (index = N-1 and dx < 0)).
C2_CommitIff ==
  [][ LET dx == DeltaXOf(delta)
          valid == \/ (IsNum(start.time) /\ start.time < 250 /\ Abs(dx) > 20)
                   \/ 2 * Abs(dx) > width
          past == \/ (index = 0 /\ dx > 0)
                  \/ (index = nSlides - 1 /\ dx < 0)
      IN (FinishRan(op', fired') /\ isScrolling # "true" /\ dx # 0) =>
           ((index' # index) <=> (valid /\ ~past)) ]_vars

\* a slow, short swipe (dx = -50 after 250 ms or more) that left index 0 alone
C2_Witness ==
  /\ op.name = "end"
  /\ isScrolling = "false"
  /\ delta.x = 0 - 50 /\ start.time = 250
  /\ nSlides = 3 /\ index = 0 /\ width = 300
  /\ Changes(fired) = <<>>
  /\ FinishRan(op, fired)

\* C3: a commit sets the active index to index + 1 for a negative dx and to
\* index - 1 for a positive dx, and fires onChange exactly once, in the same
\* handler, with the new index and the sign of dx.
C3_CommitStep ==
  [][ LET dx == DeltaXOf(delta)
      IN (FinishRan(op', fired') /\ Changes(fired') # <<>>) =>
           /\ dx < 0 => index' = index + 1
           /\ dx > 0 => index' = index - 1
           /\ Changes(fired') = <<Note("callback", index', directionOf(dx))>> ]_vars

\* C3, from an active index that names a slide
C3_CommitStepInRange ==
  [][ LET dx == DeltaXOf(delta)
      IN (FinishRan(op', fired') /\ Changes(fired') # <<>> /\ InRange) =>
           /\ dx < 0 => index' = index + 1
           /\ dx > 0 => index' = index - 1
           /\ Changes(fired') = <<Note("callback", index', directionOf(dx))>> ]_vars

\* C4: the start of a session, and every move and the end of a session whose
\* axis lock is VerticalScroll, leave the active index and every slidePos
\* entry as they were and fire no onChange, whatever delta.x the session
\* holds: at its end both are what they were at its start.
C4_VerticalFrame ==
  [][ (\/ op'.name = "start"
       \/ (op'.name \in {"move", "end"} /\ isScrolling' = "true")) =>
        /\ index' = index
        /\ slidePos' = slidePos
        /\ Changes(fired') = <<>> ]_vars

\* a session locked to VerticalScroll ended holding dx = -200
C4_Witness ==
  /\ op.name = "end"
  /\ isScrolling = "true"
  /\ delta.x = 0 - 200
  /\ FinishRan(op, fired)
  /\ InRange /\ index < nSlides - 1
  /\ RestAround(slidePos, index, nSlides, width)

\* C5: when finishSwipe() evaluates a non-zero delta.x and does not commit,
\* the active index is unchanged, no onChange is fired, and the table holds
\* 0 for the active slide, -W for the slide before it and +W for the slide
\* after it, for the neighbours that exist.
C5_SnapBack ==
  [][ LET dx == DeltaXOf(delta)
          valid == \/ (IsNum(start.time) /\ start.time < 250 /\ Abs(dx) > 20)
                   \/ 2 * Abs(dx) > width
          past == \/ (index = 0 /\ dx > 0)
                  \/ (index = nSlides - 1 /\ dx < 0)
      IN (FinishRan(op', fired') /\ isScrolling # "true" /\ dx # 0
          /\ ~(valid /\ ~past)) =>
           /\ index' = index
           /\ Changes(fired') = <<>>
           /\ slidePos'[index] = 0
           /\ (index - 1 \in 0..(nSlides - 1)) => slidePos'[index - 1] = 0 - width
           /\ (index + 1 \in 0..(nSlides - 1)) => slidePos'[index + 1] = width ]_vars

\* dx = +150 at the first slide: past the bounds, snapped back
C5_Witness ==
  /\ op.name = "end"
  /\ isScrolling = "false"
  /\ delta.x = 150
  /\ nSlides = 3 /\ index = 0 /\ width = 300
  /\ FinishRan(op, fired)
  /\ Changes(fired) = <<>>
  /\ slidePos[0] = 0 /\ slidePos[1] = 300

\* C6: the active index is in [0, N-1] in every reachable state.
C6_IndexInRange == InRange

\* C7: at rest, exactly the active slide has offset 0, the slide before it
\* has -W and the slide after it has +W.
C7_RestOffsets ==
  /\ RestAround(slidePos, index, nSlides, width)
  /\ \A j \in 0..(nSlides - 1) : slidePos[j] = 0 => j = index

\* C8: from a table that has exactly the entries 0..N-1, no step writes an
\* entry outside 0..N-1.
C8_TableKeys ==
  [][ (InRange /\ Written(slidePos) = 0..(nSlides - 1)) =>
        Written(slidePos') = 0..(nSlides' - 1) ]_vars

\* C9: next() at the last slide changes neither the active index nor the
\* table, fires nothing and queues no frame callback.
C9_NextAtLast ==
  [][ (op'.name = "next" /\ index = nSlides - 1) =>
        /\ index' = index
        /\ slidePos' = slidePos
        /\ fired' = <<>>
        /\ rafQueue' = rafQueue ]_vars

\* next() returned at the last slide with nothing queued
C9_Witness ==
  /\ op.name = "next"
  /\ nSlides = 3 /\ index = 2
  /\ rafQueue = <<>>
  /\ fired = <<>>
  /\ slidePos[2] = 0 /\ slidePos[1] = 0 - width

\* C10: prev() at index 0 sets the active index to N-1 and queues the
\* onChange frame callback, while next() at N-1 leaves the index and the
\* queue alone.
C10_PrevWraps ==
  [][ /\ (op'.name = "prev" /\ index = 0) =>
           /\ index' = nSlides - 1
           /\ rafQueue' = Append(rafQueue, 1)
      /\ (op'.name = "next" /\ index = nSlides - 1) =>
           /\ index' = nSlides - 1
           /\ rafQueue' = rafQueue ]_vars

\* prev() has wrapped from slide 0 to slide 2
C10_Witness ==
  /\ op.name = "prev"
  /\ nSlides = 3 /\ index = 2
  /\ rafQueue = <<1>>
  /\ slidePos[0] = width /\ slidePos[1] = width /\ slidePos[2] = 0

\* C11: kill() leaves no listener of the engine on the track or the window
\* and no timer pending, and a kill() that follows a kill() changes nothing.
C11_KillIdempotent ==
  [][ op'.name = "kill" =>
        /\ listeners' = {}
        /\ wheelEndTimeout' = NoTimer
        /\ resizeTimer' = NoTimer
        /\ op.name = "kill" => vars' = vars ]_vars

\* kill() ran while a pointer session held the capture
C11_Witness ==
  /\ op.name = "kill"
  /\ listeners = {}
  /\ captured
  /\ delta.x = 0 - 200
  /\ wheelEndTimeout = NoTimer /\ resizeTimer = NoTimer

\* C12: from kill() until the host sets the engine up again, no resize or
\* wheel timer is pending, so none fires: a timer pending at the call is
\* cancelled by it.
C12_NoTimerAfterKill ==
  listeners = {} => (wheelEndTimeout = NoTimer /\ resizeTimer = NoTimer)

\* time has passed over an engine that was killed in the middle of a wheel
\* burst: delta still holds what the burst accumulated, unevaluated
C12_Witness ==
  /\ op.name = "tick"
  /\ listeners = {}
  /\ isScrolling = "undefined"
  /\ IsNum(delta.x) /\ delta.x < 0
  /\ start.time = MaxAge
  /\ wheelEndTimeout = NoTimer /\ resizeTimer = NoTimer

\* C13: a resize signal runs no setup() itself and leaves the debounce timer
\* at 150 ms, whatever was left on it; the debounced setup() runs when 150 ms
\* have passed since the last signal, never earlier, and leaves no timer
\* behind, so a burst of signals less than 150 ms apart yields one call.
C13_ResizeDebounced ==
  [][ /\ op'.name = "resize" =>
           /\ resizeTimer' = 150
           /\ <<length, width, slidePos, listeners>>' = <<length, width, slidePos, listeners>>
      /\ op'.name = "resizeEnd" =>
           /\ since.resize = 150
           /\ resizeTimer' = NoTimer
           /\ length' = nSlides ]_vars

\* a second signal of a burst, 25 ms after the first, has restarted the timer
C13_Witness ==
  /\ op.name = "resize"
  /\ op.arg = 125
  /\ resizeTimer = 150
  /\ since.resize = 0

\* C14, with the axis lock of the last pointer session counted into the rule:
\* every qualifying wheel event leaves the silence timer at 50 ms, whatever
\* was left on it; the evaluation runs when 50 ms have passed since the last
\* qualifying event, applies what finishSwipe() applies at a session end to
\* the accumulated delta.x, fires onDragEnd once, and leaves delta empty and
\* no timer behind.
C14_WheelBurst ==
  [][ /\ (op'.name = "wheel" /\ op'.arg # Undefined) =>
           /\ wheelEndTimeout' = 50
           /\ index' = index
           /\ fired' = <<>>
      /\ op'.name = "wheelEnd" =>
           LET dx == DeltaXOf(delta)
               valid == \/ (IsNum(start.time) /\ start.time < 250 /\ Abs(dx) > 20)
                        \/ 2 * Abs(dx) > width
               past == \/ (index = 0 /\ dx > 0)
                       \/ (index = nSlides - 1 /\ dx < 0)
           IN /\ since.wheel = 50
              /\ (index' # index) <=> (isScrolling # "true" /\ dx # 0 /\ valid /\ ~past)
              /\ FinishRan(op', fired')
              /\ Len(SelectSeq(fired', LAMBDA n : n.name = "dragEnd")) = 1
              /\ delta' = EmptyDelta
              /\ wheelEndTimeout' = NoTimer ]_vars

\* a burst that had accumulated dx = -400 at the first of three slides has
\* committed to slide 1
C14_Witness ==
  /\ op.name = "wheelEnd"
  /\ op.arg = 0 - 400
  /\ nSlides = 3 /\ width = 300 /\ index = 1
  /\ Changes(fired) = <<Note("callback", 1, 0 - 1)>>
  /\ delta = EmptyDelta
  /\ wheelEndTimeout = NoTimer

\* whether the move and end listeners of some session are attached
SessionListening ==
  listeners \cap UNION { sessionTypes001(kind) : kind \in Kinds } # {}

\* C14: with no pointer session open, the evaluation at the end of a wheel
\* burst commits exactly when the accumulated delta.x passes the commit rule
\* of a session end (the burst is fast and longer than 20 px, or longer than
\* half the width, and does not point past the first or the last slide):
\* dx = -400 at the first of three slides of width 300 commits to slide 1.
C14_WheelCommitRule ==
  [][ (op'.name = "wheelEnd" /\ ~SessionListening) =>
        LET dx == DeltaXOf(delta)
            valid == \/ (IsNum(start.time) /\ start.time < 250 /\ Abs(dx) > 20)
                     \/ 2 * Abs(dx) > width
            past == \/ (index = 0 /\ dx > 0)
                    \/ (index = nSlides - 1 /\ dx < 0)
        IN (index' # index) <=> (dx # 0 /\ valid /\ ~past) ]_vars

\* the travel points past the first or the last slide
AtEdge(dx) == (index = 0 /\ dx > 0) \/ (index = nSlides - 1 /\ dx < 0)

\* C15, amended: at the first slide for dx > 0 and at the last slide for
\* dx < 0 the drawn offset r is dx / (|dx| / W + 1), it has the sign of dx,
\* it grows strictly with |dx|, and its magnitude stays below W with
\* W - |r| = W * W / (|dx| + W), which shrinks towards 0 as |dx| grows: the
\* offset approaches W (not 2W) and never reaches it.
C15_ResistanceBelowWidth ==
  [][ LET q == resisted
          r == resisted'
      IN (r.dx # Undefined /\ AtEdge(r.dx)) =>
           /\ r.num * (Abs(r.dx) + width) = r.dx * width * r.den
           /\ r.num * r.dx > 0
           /\ Abs(r.num) < width * r.den
           /\ width * r.den - Abs(r.num) = width * width
           /\ r.den = Abs(r.dx) + width
           /\ (q.dx # Undefined /\ AtEdge(q.dx) /\ Abs(q.dx) < Abs(r.dx)) =>
                 Abs(q.num) * r.den < Abs(r.num) * q.den ]_vars

\* a travel of 2400 px past the first slide of width 300 is drawn at
\* 720000 / 2700 = 266.7 px, after a shorter travel was drawn
C15_Witness ==
  /\ op.name = "resist"
  /\ index = 0 /\ width = 300
  /\ resisted = [dx |-> 2400, num |-> 720000, den |-> 2700]

\* C15: at the first slide for dx > 0 and at the last slide for dx < 0 the
\* magnitude of the drawn offset approaches 2W as |dx| grows: a travel of at
\* least eight widths is drawn beyond W, less than W / 2 short of 2W.
C15_ApproachesTwiceWidth ==
  (resisted.dx # Undefined /\ AtEdge(resisted.dx) /\ Abs(resisted.dx) >= 8 * width) =>
     2 * (2 * width * resisted.den - Abs(resisted.num)) < width * resisted.den

\* C16: at most one gesture session is open.  While the move and end
\* listeners of a session are attached, a press or a wheel event leaves the
\* session's start point and delta as they are and the wheel-silence timer
\* does not run its evaluation; while a wheel burst waits for its silence
\* timer, a press leaves start point and delta as they are.
C16_OneSession ==
  [][ /\ (SessionListening /\ op'.name \in {"start", "wheel"}) =>
           (start' = start /\ delta' = delta)
      /\ (SessionListening => op'.name # "wheelEnd")
      /\ (wheelEndTimeout # NoTimer /\ op'.name = "start") =>
           (start' = start /\ delta' = delta) ]_vars

\* the listeners of the open session
sessionListeners(ls) == ls \cap UNION { sessionTypes001(kind) : kind \in Kinds }

\* C17: a session that has started is ended by its release.  A setup()
\* (direct or debounced) or a slide/prev/next call between the start and the
\* release leaves the session's move and end listeners attached and the
\* capture held, so that the release finds its handler; and the handled
\* release leaves no capture and no session listener and fires onDragEnd
\* exactly once.
C17_SessionEnds ==
  [][ /\ (SessionListening /\
             op'.name \in {"setup", "resizeEnd", "slide", "prev", "next"}) =>
           /\ sessionListeners(listeners') = sessionListeners(listeners)
           /\ captured' = captured
      /\ (op'.name = "end" /\ fired' # <<>>) =>
           /\ ~captured'
           /\ sessionListeners(listeners') = {}
           /\ Len(SelectSeq(fired', LAMBDA n : n.name = "dragEnd")) = 1 ]_vars

\* what C18 says of slide(target) without its last clause: a target equal
\* to the index changes nothing and queues no onChange; an in-range target
\* other than the index becomes the index, its slide is at 0, and the slide
\* left and every slide strictly between the two are at -W when travelling
\* forward and at +W when travelling backward
C18_SlideToMoves ==
  [][ op'.name = "slide" =>
        LET target == op'.arg
            lo == IF target > index THEN index ELSE target + 1
            hi == IF target > index THEN target - 1 ELSE index
        IN /\ target = index =>
                (index' = index /\ slidePos' = slidePos /\ rafQueue' = rafQueue)
           /\ (InRange /\ target \in 0..(nSlides - 1) /\ target # index) =>
                /\ index' = target
                /\ slidePos'[target] = 0
                /\ \A j \in lo..hi :
                     slidePos'[j] = IF target > index THEN 0 - width ELSE width ]_vars

\* C18: slide(target) with target equal to the index changes nothing and
\* queues no onChange; with an in-range target other than the index it makes
\* target the index, puts its slide at 0 and the slide left and every slide
\* between the two at -W (forward) or +W (backward), and afterwards every
\* slide before target is at -W and every slide after it at +W.
C18_SlideTo ==
  [][ op'.name = "slide" =>
        LET target == op'.arg
            lo == IF target > index THEN index ELSE target + 1
            hi == IF target > index THEN target - 1 ELSE index
        IN /\ target = index =>
                (index' = index /\ slidePos' = slidePos /\ rafQueue' = rafQueue)
           /\ (InRange /\ target \in 0..(nSlides - 1) /\ target # index) =>
                /\ index' = target
                /\ slidePos'[target] = 0
                /\ \A j \in lo..hi :
                     slidePos'[j] = IF target > index THEN 0 - width ELSE width
                /\ \A j \in 0..(nSlides - 1) :
                     /\ j < target => slidePos'[j] = 0 - width
                     /\ j > target => slidePos'[j] = width ]_vars

\* C19: appendSlide(node) takes 1 off the active index and prependSlide(node)
\* adds 1 to it, and the setup() that follows lays the track out around the
\* new index, at which the slide that was active before the call then is,
\* from every active index of the track.
C19_AddSlideKeepsActive ==
  [][ (op'.name \in {"appendSlide", "prependSlide"} /\ InRange) =>
        /\ index' = index + (IF op'.name = "appendSlide" THEN 0 - 1 ELSE 1)
        /\ op'.arg = index'
        /\ length' = nSlides'
        /\ slidePos' = setupPos(length', index', width') ]_vars

C21_EmptyTrackNoOp ==
  [][ (nSlides = 0 /\ op'.name \in {"setup", "slide", "prev", "next", "kill"}) =>
        /\ fired' = <<>>
        /\ index' = index
        /\ slidePos' = slidePos
        /\ rafQueue' = rafQueue
        /\ op'.name = "setup" => length' = 0 ]_vars

\* C22: after a kill() of the element that no init() has followed, whether
\* or not the first-layout callback of an earlier init() was still pending
\* and has run since, the element holds no engine, no listener of an engine
\* is attached and data-ready is not set.
C22_KilledStaysKilled ==
  component.killed =>
    /\ ~component.swipe
    /\ ~component.ready
    /\ listeners = {}
    /\ component.orphans = 0

\* the cases in which a press is to be rejected
pressRefused(kind, isPrimary, matches) ==
  \/ config.paused
  \/ config.ignore /\ matches
  \/ kind = "pointer" /\ ~isPrimary

\* C23: a press made while the gestures are paused, on a target matching the
\* ignore selector or, for pointer input, by a pointer that is not primary
\* changes nothing (start, delta, axis lock, index, slidePos), attaches no
\* listener and fires nothing; every other press records its point and time,
\* resets delta, leaves the axis lock undecided and fires onDragStart once
\* with the current index.
C23_Press ==
  [][ \A kind \in Kinds, isPrimary \in BOOLEAN, pointerId \in PointerIds,
         p \in PressPoints, matches \in BOOLEAN :
        OnStart(kind, isPrimary, pointerId, p[1], p[2], matches) =>
          IF pressRefused(kind, isPrimary, matches)
            THEN /\ UNCHANGED <<start, delta, isScrolling, index, slidePos, listeners>>
                 /\ fired' = <<>>
            ELSE /\ start'.x = p[1] /\ start'.y = p[2] /\ start'.time = 0
                 /\ delta' = EmptyDelta
                 /\ isScrolling' = "undefined"
                 /\ fired' = <<Note("dragStart", index, 0)>>
                 /\ UNCHANGED <<index, slidePos>> ]_vars

\* a press was rejected because the gestures are paused, in the middle of
\* nothing: no session is open
C23_Witness ==
  /\ op.name = "start" /\ config.paused /\ fired = <<>>
  /\ listeners = attachEvents({}, config)

\* C24: a move that finds the axis lock undecided decides it, vertical
\* scroll exactly if |dy| > |dx| + 10 and horizontal otherwise; a move that
\* finds it decided leaves it as it is, wherever the pointer went; only the
\* press of the next session makes it undecided again.
C24_AxisLockOnce ==
  [][ /\ \A kind \in Kinds, single \in BOOLEAN, p \in PressPoints,
            dx \in DeltaXs, dy \in PressDeltaYs :
           ( /\ OnMove(kind, TRUE, start.pointerId, single, p[1] + dx, p[2] + dy)
             /\ ~moveDropped(kind, TRUE, start.pointerId, single) ) =>
             IF isScrolling = "undefined"
               THEN isScrolling' = (IF Abs(delta'.y) > Abs(delta'.x) + 10
                                      THEN "true" ELSE "false")
               ELSE isScrolling' = isScrolling
      /\ (isScrolling # "undefined" /\ isScrolling' # isScrolling) =>
           (op'.name = "start" /\ isScrolling' = "undefined") ]_vars

\* a horizontal session whose pointer has moved to where a first move would
\* have resolved to vertical scroll
C24_Witness ==
  /\ op.name = "move" /\ isScrolling = "false"
  /\ Abs(delta.y) > Abs(delta.x) + 10

\* C25: the pointer capture is held only while a pointer session is open
\* whose axis lock is horizontal; it is taken by the move that decides the
\* lock horizontal and by no other, and wherever no session is open - after
\* an end, a setup() or a kill() - it is not held.
C25_CaptureInSession ==
  /\ captured => ("pointermove" \in listeners /\ isScrolling = "false")
  /\ (op.name = "move" /\ fired # <<>> /\ "pointermove" \in listeners) => captured

\* the offset delta.x is to be drawn with: dx * W / (|dx| + W) at the first
\* slide for dx > 0 and at the last slide for dx < 0, and dx elsewhere
resistedOffset(dx) ==
  IF (index = 0 /\ dx > 0) \/ (index = nSlides - 1 /\ dx < 0)
    THEN [num |-> dx * width, den |-> Abs(dx) + width]
    ELSE [num |-> dx, den |-> 1]

\* C26: a move of a session whose axis lock is horizontal leaves the index
\* and every slidePos entry as they are, fires onMove once and draws the
\* slides index - 1, index and index + 1 that exist, each once and no
\* other, at r + slidePos[idx], r being delta.x resisted at the two edges.
C26_MoveRenders ==
  [][ (op'.name = "move" /\ isScrolling' = "false") =>
        \A kind \in Kinds, single \in BOOLEAN, p \in PressPoints,
           dx \in DeltaXs, dy \in PressDeltaYs :
          ( /\ OnMove(kind, TRUE, start.pointerId, single, p[1] + dx, p[2] + dy)
            /\ ~moveDropped(kind, TRUE, start.pointerId, single) ) =>
            LET r == resistedOffset(delta'.x)
                shown == {index - 1, index, index + 1} \cap (0..(nSlides - 1))
            IN /\ UNCHANGED <<index, slidePos>>
               /\ fired' = <<Note("runMove", 0, 0)>>
               /\ Len(drawn') = Cardinality(shown)
               /\ \A k \in shown :
                    \E i \in 1..Len(drawn') :
                      /\ drawn'[i].idx = k
                      /\ drawn'[i].num * r.den =
                           (r.num + slidePos[k] * r.den) * drawn'[i].den ]_vars

\* the first slide dragged towards the slide before it: the move drew the
\* first two slides, with resistance
C26_Witness ==
  /\ op.name = "move" /\ isScrolling = "false"
  /\ index = 0 /\ delta.x = 150 /\ nSlides >= 2
  /\ Len(drawn) = 2
  /\ drawn[1].idx = 0 /\ drawn[1].den = 150 + width

\* C27: a slide, prev or next call that changes the index fires nothing
\* itself and queues one frame callback with its direction of travel; the
\* frame fires that one onChange; and from the call to the frame the
\* position the pending callback is going to report stays the target of its
\* call, whatever other call or gesture commit comes in between.
C27_ChangeReportsTarget ==
  [][ /\ (op'.name \in {"slide", "prev", "next"} /\ index' # index) =>
           /\ fired' = <<>>
           /\ rafQueue' = Append(rafQueue, IF index > op'.arg THEN 1 ELSE 0 - 1)
           /\ index' = circle(op'.arg)
      /\ op'.name = "frame" =>
           /\ Len(fired') = 1
           /\ fired'[1].name = "callback" /\ fired'[1].dir = Head(rafQueue)
      /\ (rafQueue # <<>> /\ op'.name # "frame") => getPos' = getPos ]_vars

\* the damping factor in hundredths, stepping down once |delta.x| has passed
\* W/2, W, 3W/2 and 2W
factorPast(a, w) ==
  IF 2 * a <= w THEN 70
  ELSE IF a <= w THEN 30
  ELSE IF 2 * a <= 3 * w THEN 10
  ELSE IF a <= 2 * w THEN 5
  ELSE 1

\* the damping factor in hundredths, stepping down on reaching W/2, W, 3W/2
\* and 2W
factorFrom(a, w) ==
  IF 2 * a < w THEN 70
  ELSE IF a < w THEN 30
  ELSE IF 2 * a < 3 * w THEN 10
  ELSE IF a < 2 * w THEN 5
  ELSE 1

\* C28, with the thresholds as the engine compares them: a qualifying wheel
\* event takes its damping factor from q = |delta.x| / W before the event,
\* 0.7 for q <= 0.5, 0.3 for 0.5 < q <= 1.0, 0.1 for 1.0 < q <= 1.5, 0.05
\* for 1.5 < q <= 2.0 and 0.01 for q > 2.0; delta.x becomes delta.x -
\* deltaX * factor and delta.y becomes delta.y - deltaY * 0.5.
C28_Damping ==
  [][ \A e \in BurstEvents :
        (OnWheelWithin(MaxBurstX, e.x, e.y, e.mode) /\ op'.arg # Undefined) =>
          LET old == IF IsNum(delta.x) THEN delta.x ELSE 0
              oldY == IF IsNum(delta.y) THEN delta.y ELSE 0
          IN /\ 100 * delta'.x = 100 * old - e.x * factorPast(Abs(old), width)
             /\ 2 * delta'.y = 2 * oldY - e.y ]_vars

\* a burst that stood at exactly the width (q = 1.0) took another 300 px,
\* damped to 0.3
C28_Witness ==
  /\ op.name = "wheel"
  /\ width = 300
  /\ delta.x = 0 - 390

\* C28 as stated: 0.7 for q < 0.5, 0.3 for 0.5 <= q < 1.0, 0.1 for
\* 1.0 <= q < 1.5, 0.05 for 1.5 <= q < 2.0 and 0.01 for q >= 2.0.
C28_DampingAsStated ==
  [][ \A e \in BurstEvents :
        (OnWheelWithin(MaxBurstX, e.x, e.y, e.mode) /\ op'.arg # Undefined) =>
          LET old == IF IsNum(delta.x) THEN delta.x ELSE 0
              oldY == IF IsNum(delta.y) THEN delta.y ELSE 0
          IN /\ 100 * delta'.x = 100 * old - e.x * factorFrom(Abs(old), width)
             /\ 2 * delta'.y = 2 * oldY - e.y ]_vars

\* deltaX in pixels: a line counts 40 px, a page the width
inPixels(d, mode) == IF mode = 1 THEN d * 40 ELSE IF mode = 2 THEN d * width ELSE d

\* C29: a wheel event of less than 3 px, lines and pages converted to
\* pixels, leaves delta, index, slidePos and the silence timer as they are;
\* an event of 3 px or more accumulates into delta.x and leaves the timer
\* restarted at 50 ms.
C29_WheelThreshold ==
  [][ \A e \in ModeEvents :
        OnWheel(e.x, e.y, e.mode) =>
          IF Abs(inPixels(e.x, e.mode)) < 3
            THEN UNCHANGED <<delta, index, slidePos, wheelEndTimeout>>
            ELSE /\ IsNum(delta'.x) /\ delta'.x # DeltaXOf(delta)
                 /\ wheelEndTimeout' = 50 ]_vars

\* C30: the end of a session that recorded no move, or whose delta.x is 0,
\* commits nothing and snaps nothing back - the index and every slidePos
\* entry stay as they are and no onChange is fired - but it detaches the
\* listeners of the session and fires onDragEnd, once and nothing else.
C30_EmptyRelease ==
  [][ (op'.name = "end" /\ fired' # <<>> /\ (~IsNum(delta.x) \/ delta.x = 0)) =>
        /\ index' = index
        /\ slidePos' = slidePos
        /\ Changes(fired') = <<>>
        /\ sessionListeners(listeners) # {}
        /\ sessionListeners(listeners') = {}
        /\ fired' = <<Note("dragEnd", index, 0)>> ]_vars

\* a session at the first slide was released after a move that came back to
\* where it was pressed
C30_Witness ==
  /\ op.name = "end" /\ fired # <<>>
  /\ delta.x = 0 /\ isScrolling = "false"
  /\ index = 0
  /\ sessionListeners(listeners) = {}

\* the handlers of pointer, touch, mouse and wheel input
UserInput == {"start", "move", "end", "wheel", "wheelEnd"}

\* C31: from an active index that names a slide, a handler of user input
\* leaves the index alone or moves it by one, forward for a negative delta.x
\* and back for a positive one, to an index that names a slide again: it
\* never goes from the last slide to the first or from the first to the
\* last, and over a single slide it never changes the index.
C31_CommitNoWrap ==
  [][ (op'.name \in UserInput /\ InRange /\ index' # index) =>
        /\ op'.name \in {"end", "wheelEnd"}
        /\ index' = index + (IF DeltaXOf(delta) < 0 THEN 1 ELSE 0 - 1)
        /\ index' \in 0..(nSlides - 1)
        /\ nSlides > 1 ]_vars

\* a fast swipe forward at the last of three slides was released and left
\* the index where it was
C31_Witness ==
  /\ op.name = "end" /\ FinishRan(op, fired)
  /\ isScrolling = "false" /\ delta.x = 0 - 200 /\ start.time < 250
  /\ nSlides = 3 /\ index = 2
  /\ Changes(fired) = <<>>

\* C32: what the evaluation at the end of a wheel burst does is a function
\* of the accumulated delta.x, the age of the burst, the index, the number
\* of slides and the width alone - a commit by one slide with an onChange
\* when the travel is valid and within bounds, a snap-back when it is not,
\* nothing for no travel - whatever axis lock the last pointer, touch or
\* mouse session resolved to.
C32_WheelOutcomeFromBurst ==
  [][ (op'.name = "wheelEnd" /\ ~SessionListening /\ InRange) =>
        LET dx == DeltaXOf(delta)
            valid == \/ (IsNum(start.time) /\ start.time < 250 /\ Abs(dx) > 20)
                     \/ 2 * Abs(dx) > width
            past == \/ (index = 0 /\ dx > 0)
                    \/ (index = nSlides - 1 /\ dx < 0)
        IN IF dx = 0
             THEN index' = index /\ slidePos' = slidePos /\ Changes(fired') = <<>>
           ELSE IF valid /\ ~past
             THEN /\ index' = index + (IF dx < 0 THEN 1 ELSE 0 - 1)
                  /\ Len(Changes(fired')) = 1
           ELSE /\ index' = index
                /\ Changes(fired') = <<>>
                /\ slidePos' = snapBack(slidePos, index, width) ]_vars

\* the onDragEnd notifications among those of a handler
DragEnds(f) == SelectSeq(f, LAMBDA n : n.name = "dragEnd")

\* C33: onDragStart comes first and every onDragEnd answers an onDragStart.
\* onStart is the one place that fires onDragStart and the one place that
\* stores a press point, so as long as start holds no point no onDragStart
\* has been fired, and no handler may fire an onDragEnd.
C33_DragEndAnswersStart ==
  start.x = Undefined => DragEnds(fired) = <<>>

\* C34: a release, cancel or leave that carries another pointerId than the
\* one the open session recorded at its press does not end the session: it
\* evaluates nothing (index and slidePos stay), fires nothing, keeps the
\* session's listeners attached and its capture held.
C34_EndOfOwnPointer ==
  [][ \A type \in endTypes("pointer"), isPrimary \in BOOLEAN, pointerId \in TwoPointerIds :
        ( /\ OnEnd(type, "pointer", isPrimary, pointerId)
          /\ "pointermove" \in listeners
          /\ pointerId # start.pointerId ) =>
          /\ index' = index
          /\ slidePos' = slidePos
          /\ fired' = <<>>
          /\ captured' = captured
          /\ listeners' = listeners ]_vars

\* C35: between pause() and resume() no handler of user input changes the
\* active index or fires onChange, be it the handler of a press or a wheel
\* event, of the move or the end of a session opened before pause(), or of
\* a wheel-silence timer armed before it.
C35_PausedNoChange ==
  [][ (config.paused /\ op'.name \in UserInput) =>
        /\ index' = index
        /\ Changes(fired') = <<>> ]_vars

====
